---- MODULE Spec2Model ----
(***************************************************************************)
(* Model of the oplog crate: the Operation decoder (src/src/operation.rs), *)
(* the Operation stream adapter (src/src/oplog.rs) and the subscription    *)
(* worker spawned by subscribe (src/src/lib.rs).                           *)
(***************************************************************************)
EXTENDS Integers, Sequences, FiniteSets, TLC

(***************************************************************************)
(* Bounds of the model.                                                    *)
(***************************************************************************)
\* Longest run of arbitrary raw records the reader supplies.
MaxMixed == 3
\* Longest run of decodable insert/update/delete records the reader supplies
\* (longer than the queue, so that the worker meets a full queue).
MaxBurst == 6

\* tokio::sync::mpsc::channel(4)
Capacity == 4

(***************************************************************************)
(* BSON values: a value is a tag and a content; a Document is a function   *)
(* from keys to values.                                                    *)
(***************************************************************************)
Str(s) == [t |-> "String", v |-> s]
I32(n) == [t |-> "Int32", v |-> n]
I64(n) == [t |-> "Int64", v |-> n]
DateTime(ms) == [t |-> "DateTime", v |-> ms]
Timestamp(s) == [t |-> "Timestamp", v |-> s]
Doc(d) == [t |-> "Document", v |-> d]
Array(a) == [t |-> "Array", v |-> a]

Ok(x) == [ok |-> TRUE, val |-> x]
Err(e) == [ok |-> FALSE, err |-> e]

\* Document::get_str / get_i64 / get_datetime / get_document / get_array:
\* NotPresent when the key is absent, UnexpectedType when the value has
\* another type, the content otherwise.
Get(document, key, type) ==
    IF key \notin DOMAIN document THEN Err("NotPresent")
    ELSE IF document[key].t # type THEN Err("UnexpectedType")
    ELSE Ok(document[key].v)

get_str(document, key) == Get(document, key, "String")
get_i64(document, key) == Get(document, key, "Int64")
get_datetime(document, key) == Get(document, key, "DateTime")
get_document(document, key) == Get(document, key, "Document")
get_array(document, key) == Get(document, key, "Array")

\* .map_err(|e| crate::Error::MissingField(e))
MissingField(e) == Err([kind |-> "MissingField", access |-> e])
UnknownOperation(op) == Err([kind |-> "UnknownOperation", op |-> op])
InvalidOperation == Err([kind |-> "InvalidOperation"])

(***************************************************************************)
(* The Operation decoder.                                                  *)
(***************************************************************************)
from_noop(document) ==
    LET h == get_i64(document, "h")
        ts == get_datetime(document, "ts")
        o == get_document(document, "o")
    IN  IF ~h.ok THEN MissingField(h.err)
        ELSE IF ~ts.ok THEN MissingField(ts.err)
        ELSE IF ~o.ok THEN MissingField(o.err)
        ELSE LET msg == get_str(o.val, "msg")
             IN  IF ~msg.ok THEN MissingField(msg.err)
                 ELSE Ok([variant |-> "Noop", id |-> h.val, timestamp |-> ts.val,
                          message |-> msg.val])

from_insert(document) ==
    LET h == get_i64(document, "h")
        ts == get_datetime(document, "ts")
        ns == get_str(document, "ns")
        o == get_document(document, "o")
    IN  IF ~h.ok THEN MissingField(h.err)
        ELSE IF ~ts.ok THEN MissingField(ts.err)
        ELSE IF ~ns.ok THEN MissingField(ns.err)
        ELSE IF ~o.ok THEN MissingField(o.err)
        ELSE Ok([variant |-> "Insert", id |-> h.val, timestamp |-> ts.val,
                 namespace |-> ns.val, document |-> o.val])

\* from_update with the selector and the change exchanged.
from_update_Exchanged(document) ==
    LET h == get_i64(document, "h")
        ts == get_datetime(document, "ts")
        ns == get_str(document, "ns")
        o == get_document(document, "o")
        o2 == get_document(document, "o2")
    IN  IF ~h.ok THEN MissingField(h.err)
        ELSE IF ~ts.ok THEN MissingField(ts.err)
        ELSE IF ~ns.ok THEN MissingField(ns.err)
        ELSE IF ~o.ok THEN MissingField(o.err)
        ELSE IF ~o2.ok THEN MissingField(o2.err)
        ELSE Ok([variant |-> "Update", id |-> h.val, timestamp |-> ts.val,
                 namespace |-> ns.val, query |-> o.val, update |-> o2.val])

from_update(document) ==
    LET h == get_i64(document, "h")
        ts == get_datetime(document, "ts")
        ns == get_str(document, "ns")
        o == get_document(document, "o")
        o2 == get_document(document, "o2")
    IN  IF ~h.ok THEN MissingField(h.err)
        ELSE IF ~ts.ok THEN MissingField(ts.err)
        ELSE IF ~ns.ok THEN MissingField(ns.err)
        ELSE IF ~o.ok THEN MissingField(o.err)
        ELSE IF ~o2.ok THEN MissingField(o2.err)
        ELSE Ok([variant |-> "Update", id |-> h.val, timestamp |-> ts.val,
                 namespace |-> ns.val, query |-> o2.val, update |-> o.val])

\* from_delete filling in an empty namespace when ns cannot be read.
from_delete_DefaultNamespace(document) ==
    LET h == get_i64(document, "h")
        ts == get_datetime(document, "ts")
        ns == get_str(document, "ns")
        o == get_document(document, "o")
    IN  IF ~h.ok THEN MissingField(h.err)
        ELSE IF ~ts.ok THEN MissingField(ts.err)
        ELSE IF ~o.ok THEN MissingField(o.err)
        ELSE Ok([variant |-> "Delete", id |-> h.val, timestamp |-> ts.val,
                 namespace |-> IF ns.ok THEN ns.val ELSE "", query |-> o.val])

from_delete(document) ==
    LET h == get_i64(document, "h")
        ts == get_datetime(document, "ts")
        ns == get_str(document, "ns")
        o == get_document(document, "o")
    IN  IF ~h.ok THEN MissingField(h.err)
        ELSE IF ~ts.ok THEN MissingField(ts.err)
        ELSE IF ~ns.ok THEN MissingField(ns.err)
        ELSE IF ~o.ok THEN MissingField(o.err)
        ELSE Ok([variant |-> "Delete", id |-> h.val, timestamp |-> ts.val,
                 namespace |-> ns.val, query |-> o.val])

RECURSIVE Operation_new(_)
RECURSIVE from_bson(_)
RECURSIVE collect(_)
RECURSIVE from_command(_)

\* collect decoding every element and failing with the last failure.
collect_LastFailure(ops) ==
    IF ops = << >> THEN Ok(<< >>)
    ELSE LET first == from_bson(Head(ops))
             rest == collect(Tail(ops))
         IN  IF ~rest.ok THEN rest
             ELSE IF ~first.ok THEN first
             ELSE Ok(<<first.val>> \o rest.val)

\* collect gathering the operations last element first.
collect_Reversed(ops) ==
    IF ops = << >> THEN Ok(<< >>)
    ELSE LET first == from_bson(Head(ops))
         IN  IF ~first.ok THEN first
             ELSE LET rest == collect(Tail(ops))
                  IN  IF ~rest.ok THEN rest
                      ELSE Ok(rest.val \o <<first.val>>)

\* ops.iter().map(from_bson).collect::<Result<Vec<Operation>>>(): the first
\* failing element fails the whole collection.
collect(ops) ==
    IF ops = << >> THEN Ok(<< >>)
    ELSE LET first == from_bson(Head(ops))
         IN  IF ~first.ok THEN first
             ELSE LET rest == collect(Tail(ops))
                  IN  IF ~rest.ok THEN rest
                      ELSE Ok(<<first.val>> \o rest.val)

\* from_command failing on an applyOps that is present but no array.
from_command_ArrayRequired(document) ==
    LET h == get_i64(document, "h")
        ts == get_datetime(document, "ts")
        ns == get_str(document, "ns")
        o == get_document(document, "o")
    IN  IF ~h.ok THEN MissingField(h.err)
        ELSE IF ~ts.ok THEN MissingField(ts.err)
        ELSE IF ~ns.ok THEN MissingField(ns.err)
        ELSE IF ~o.ok THEN MissingField(o.err)
        ELSE LET ops == get_array(o.val, "applyOps")
             IN  IF ops.ok
                 THEN LET operations == collect(ops.val)
                      IN  IF ~operations.ok THEN operations
                          ELSE Ok([variant |-> "ApplyOps", id |-> h.val,
                                   timestamp |-> ts.val, namespace |-> ns.val,
                                   operations |-> operations.val])
                 ELSE IF ops.err = "UnexpectedType" THEN MissingField(ops.err)
                 ELSE Ok([variant |-> "Command", id |-> h.val,
                          timestamp |-> ts.val, namespace |-> ns.val,
                          command |-> o.val])

from_command(document) ==
    LET h == get_i64(document, "h")
        ts == get_datetime(document, "ts")
        ns == get_str(document, "ns")
        o == get_document(document, "o")
    IN  IF ~h.ok THEN MissingField(h.err)
        ELSE IF ~ts.ok THEN MissingField(ts.err)
        ELSE IF ~ns.ok THEN MissingField(ns.err)
        ELSE IF ~o.ok THEN MissingField(o.err)
        ELSE LET ops == get_array(o.val, "applyOps")
             IN  IF ops.ok
                 THEN LET operations == collect(ops.val)
                      IN  IF ~operations.ok THEN operations
                          ELSE Ok([variant |-> "ApplyOps", id |-> h.val,
                                   timestamp |-> ts.val, namespace |-> ns.val,
                                   operations |-> operations.val])
                 ELSE Ok([variant |-> "Command", id |-> h.val,
                          timestamp |-> ts.val, namespace |-> ns.val,
                          command |-> o.val])

from_bson(bson) ==
    IF bson.t = "Document" THEN Operation_new(bson.v) ELSE InvalidOperation

\* Operation::new reading the id before it looks at the operation code.
Operation_new_IdFirst(document) ==
    LET op == get_str(document, "op")
        h == get_i64(document, "h")
    IN  IF ~op.ok THEN MissingField(op.err)
        ELSE IF ~h.ok THEN MissingField(h.err)
        ELSE CASE op.val = "n" -> from_noop(document)
               [] op.val = "i" -> from_insert(document)
               [] op.val = "u" -> from_update(document)
               [] op.val = "d" -> from_delete(document)
               [] op.val = "c" -> from_command(document)
               [] OTHER -> UnknownOperation(op.val)

Operation_new(document) ==
    LET op == get_str(document, "op")
    IN  IF ~op.ok THEN MissingField(op.err)
        ELSE CASE op.val = "n" -> from_noop(document)
               [] op.val = "i" -> from_insert(document)
               [] op.val = "u" -> from_update(document)
               [] op.val = "d" -> from_delete(document)
               [] op.val = "c" -> from_command(document)
               [] OTHER -> UnknownOperation(op.val)

(***************************************************************************)
(* Raw records of the oplog, shaped as the records of the decoder's tests. *)
(***************************************************************************)
Entry(op, h, payload) ==
    [ts |-> DateTime(1479419534 + h), h |-> I64(h), v |-> I32(2), op |-> Str(op),
     ns |-> Str("db.coll"), o |-> Doc(payload)]

InsertRec == Entry("i", 1, [_id |-> I32(1), foo |-> Str("bar")])
\* a replacement update: o is the whole new document
UpdateRec == Entry("u", 2, [_id |-> I32(1), foo |-> Str("baz")])
                @@ [o2 |-> Doc([_id |-> I32(1)])]
\* a modifier update: o is {"$set": {"foo": "qux"}}
UpdateSetRec == Entry("u", 3, [set |-> Doc([foo |-> Str("qux")])])
                   @@ [o2 |-> Doc([_id |-> I32(1)])]
DeleteRec == Entry("d", 4, [_id |-> I32(1)])
NoopRec == [ts |-> DateTime(1479419535), h |-> I64(5), v |-> I32(2), op |-> Str("n"),
            ns |-> Str(""), o |-> Doc([msg |-> Str("initiating set")])]
CommandRec == [ts |-> DateTime(1479553955), h |-> I64(6), v |-> I32(2), op |-> Str("c"),
               ns |-> Str("db.$cmd"), o |-> Doc([create |-> Str("coll")])]
ApplyOpsRec == [ts |-> DateTime(1483789052), h |-> I64(7), v |-> I32(2), op |-> Str("c"),
                ns |-> Str("db.$cmd"), o |-> Doc([applyOps |-> Array(<<Doc(InsertRec)>>)])]
BadApplyOpsRec == [ts |-> DateTime(1483789053), h |-> I64(8), v |-> I32(2), op |-> Str("c"),
                   ns |-> Str("db.$cmd"), o |-> Doc([applyOps |-> Array(<<I32(1)>>)])]
MissingOpRec == [foo |-> Str("bar")]
UnknownOpRec == [op |-> Str("x")]

\* What the Raw Record Reader may supply.
Records == {InsertRec, UpdateRec, UpdateSetRec, DeleteRec, NoopRec, CommandRec,
            ApplyOpsRec, BadApplyOpsRec, MissingOpRec, UnknownOpRec}
\* The records of a long run: decodable, one re-decoding into T and one not.
Burst == {InsertRec, UpdateSetRec}

(***************************************************************************)
(* The caller's payload type T and the events of a subscription.           *)
(*   struct T { _id: i32, foo: Option<String> }                            *)
(***************************************************************************)
from_document(document) ==
    IF "_id" \notin DOMAIN document THEN Err("missing field _id")
    ELSE IF document["_id"].t # "Int32" THEN Err("invalid type, expected i32")
    ELSE IF "foo" \notin DOMAIN document
         THEN Ok([_id |-> document["_id"].v, foo |-> << >>])
    ELSE IF document["foo"].t # "String" THEN Err("invalid type, expected a string")
    ELSE Ok([_id |-> document["_id"].v, foo |-> <<document["foo"].v>>])

Added(t) == [kind |-> "Added", object |-> t]
Updated(t) == [kind |-> "Updated", object |-> t]
Deleted(t) == [kind |-> "Deleted", object |-> t]
Error(s) == [kind |-> "Error", msg |-> s]

\* The document the variants matched by the subscription worker carry: the
\* reduced shape {timestamp, namespace, document} of Insert, Update and Delete.
LiveDocument(op) ==
    CASE op.variant = "Insert" -> op.document
      [] op.variant = "Update" -> op.update
      [] op.variant = "Delete" -> op.query
      [] OTHER -> << >>

\* The variants the worker's match does not turn into an Event.
Filtered(op) == op.variant \notin {"Insert", "Update", "Delete"}

\* Mutant of OnFiltered: a Noop, Command or ApplyOps record ends the task.
OnFiltered_Stops == [pc |-> "panicked", evt |-> << >>]

\* Noop, Command and ApplyOps are consumed by the worker and produce no
\* Event: the worker goes on to its next pull.
OnFiltered == [pc |-> "pulling", evt |-> << >>]

\* Mutant of Classify: the Update arm builds the event of the Insert arm.
Classify_UpdateAsInsert(op) ==
    LET t == from_document(LiveDocument(op))
    IN  CASE op.variant = "Insert" -> IF t.ok THEN Added(t.val) ELSE Error(t.err)
          [] op.variant = "Update" -> IF t.ok THEN Added(t.val) ELSE Error(t.err)
          [] op.variant = "Delete" -> IF t.ok THEN Deleted(t.val) ELSE Error(t.err)

\* let evt = match op { ... }
Classify(op) ==
    LET t == from_document(LiveDocument(op))
    IN  CASE op.variant = "Insert" -> IF t.ok THEN Added(t.val) ELSE Error(t.err)
          [] op.variant = "Update" -> IF t.ok THEN Updated(t.val) ELSE Error(t.err)
          [] op.variant = "Delete" -> IF t.ok THEN Deleted(t.val) ELSE Error(t.err)

(***************************************************************************)
(* subscribe: the filter handed to the reader.                             *)
(***************************************************************************)
\* Option<Document>: << >> is None, <<d>> is Some(d).
None == << >>
Some(x) == <<x>>

\* Mutant of BuildFilter: ns is only inserted when the caller gave none.
BuildFilter_CallerWins(ns, coll, filter) ==
    LET full == ns \o "." \o coll
    IN  IF filter # None
        THEN [k \in DOMAIN filter[1] \cup {"ns"} |->
                 IF k \in DOMAIN filter[1] THEN filter[1][k] ELSE Str(full)]
        ELSE [ns |-> Str(full)]

BuildFilter(ns, coll, filter) ==
    LET full == ns \o "." \o coll
    IN  IF filter # None
        THEN [k \in DOMAIN filter[1] \cup {"ns"} |->
                 IF k = "ns" THEN Str(full) ELSE filter[1][k]]
        ELSE [ns |-> Str(full)]

Databases == {"db", "local"}
Collections == {"coll", "oplog.rs"}
CallerFilters == {None,
                  Some([op |-> Str("i")]),
                  Some([ns |-> Str("other.coll")]),
                  Some([ns |-> I32(7), op |-> Doc([in |-> Array(<<Str("i"), Str("u")>>)])])}

(***************************************************************************)
(* The subscription: caller, reader, worker, queue and consumer.           *)
(***************************************************************************)
VARIABLES
    args,       \* the arguments of the subscribe call, until subscribe consumes them
    filter,     \* the filter subscribe built, until it is moved into Oplog::new
    history,    \* the raw records the reader has supplied so far, in order
    lastPoll,   \* outcome of the last cursor.try_next(): none, record, empty, fault
    pc,         \* the worker: idle (not spawned), opening, pulling, sending,
                \* cancelled, panicked
    evt,        \* the event of the push in flight (<< >> when there is none)
    queue,      \* the events buffered in the channel
    received,   \* the events the consumer has received, in order
    rx,         \* the receiving end: none, open, eos (recv returned None), dropped
    cancelled,  \* the cancellation signal has been issued
    cursor,     \* the filter the worker's cursor was opened with (None before)
    document,   \* the raw record handed to Operation::new (the decoder alone)
    result,     \* what Operation::new returned for document (None before the call)
    peer,       \* a second subscription of the same process
    yielded     \* the Operations the stream of Oplog::stream has yielded, in order

vars == <<args, filter, history, lastPoll, pc, evt, queue, received, rx, cancelled,
          cursor, document, result, peer, yielded>>

\* What the steps of the first subscription leave alone.
aside == <<document, result, peer>>

\* No second subscription.
NoPeer == [pc |-> "absent"]

\* The filter of Oplog::new: doc! {"op": {"$in": ["d", "u", "i"]}}.
OplogFilter == [op |-> Doc([in |-> Array(<<Str("d"), Str("u"), Str("i")>>)])]

\* The worker task is alive: the sending side of the queue exists.
Running == {"opening", "pulling", "sending"}

\* A caller is about to call subscribe(ctx, client, ns, coll, filter).
Init ==
    /\ cursor = None
    /\ document = << >>
    /\ result = None
    /\ yielded = << >>
    /\ peer = NoPeer
    /\ args \in {Some([ns |-> ns, coll |-> coll, filter |-> f]) :
                    ns \in Databases, coll \in Collections, f \in CallerFilters}
    /\ filter = None
    /\ history = << >>
    /\ lastPoll = "none"
    /\ pc = "idle"
    /\ evt = << >>
    /\ queue = << >>
    /\ received = << >>
    /\ rx = "none"
    /\ cancelled = FALSE

\* subscribe: builds the filter, creates the channel, spawns the worker and
\* returns Ok(rx).
Subscribe ==
    /\ pc = "idle"
    /\ filter' = Some(BuildFilter(args[1].ns, args[1].coll, args[1].filter))
    /\ args' = None
    /\ pc' = "opening"
    /\ rx' = "open"
    /\ UNCHANGED <<history, lastPoll, evt, queue, received, cancelled>>
    /\ UNCHANGED <<cursor, document, result, peer, yielded>>

\* Oplog::new(&client, filter).await succeeds. The filter is moved into the
\* call; Oplog::new builds the cursor with its own filter.
OpenOk ==
    /\ pc = "opening"
    /\ pc' = "pulling"
    /\ filter' = None
    /\ UNCHANGED <<args, history, lastPoll, evt, queue, received, rx, cancelled>>
    /\ cursor' = Some(OplogFilter)
    /\ UNCHANGED <<aside, yielded>>

\* The failure to open the reader reported to the consumer as an event
\* before the task ends.
OpenFail_ReportsError ==
    /\ pc = "opening"
    /\ pc' = "panicked"
    /\ filter' = None
    /\ queue' = Append(queue, Error("database error"))
    /\ UNCHANGED <<args, history, lastPoll, evt, received, rx, cancelled>>
    /\ UNCHANGED <<cursor, document, result, peer, yielded>>

\* Oplog::new(&client, filter).await fails: unwrap() panics, the task ends
\* and the sending side is dropped.
OpenFail ==
    /\ pc = "opening"
    /\ pc' = "panicked"
    /\ filter' = None
    /\ UNCHANGED <<args, history, lastPoll, evt, queue, received, rx, cancelled>>
    /\ UNCHANGED <<cursor, document, result, peer, yielded>>

\* The reader may supply r next: arbitrary records up to MaxMixed, decodable
\* insert/update/delete records up to MaxBurst.
MaySupply(r) ==
    \/ Len(history) < MaxMixed
    \/ /\ Len(history) < MaxBurst
       /\ r \in Burst
       /\ \A i \in 1..Len(history) : history[i] \in Burst

\* Mutant of OnRecord: the re-decoded payload is unwrapped, so a document that
\* does not match T ends the task.
OnRecord_UnwrapPayload(r) ==
    LET op == Operation_new(r)
    IN  IF ~op.ok THEN [pc |-> "panicked", evt |-> << >>]
        ELSE IF Filtered(op.val) THEN OnFiltered
        ELSE IF ~from_document(LiveDocument(op.val)).ok
        THEN [pc |-> "panicked", evt |-> << >>]
        ELSE [pc |-> "sending", evt |-> <<Classify(op.val)>>]

\* The worker on a record of the cursor, up to its next suspension: decode
\* (Oplog::stream, which unwraps the decoder's result), classify (subscribe)
\* and start the push. The result is the worker's position and the event of
\* the push in flight.
OnRecord(r) ==
    LET op == Operation_new(r)
    IN  IF ~op.ok THEN [pc |-> "panicked", evt |-> << >>]
        ELSE IF Filtered(op.val) THEN OnFiltered
        ELSE [pc |-> "sending", evt |-> <<Classify(op.val)>>]

\* What the stream yields on a record of the cursor: the decoded Operation;
\* nothing when the decoder fails, where unwrap() panics.
Yield(r) ==
    LET op == Operation_new(r)
    IN  IF op.ok THEN <<op.val>> ELSE << >>

\* The stream polled by a loop that outlives the task: a record is pulled
\* after the worker has taken the cancellation branch too.
ReaderRecord_AfterExit ==
    /\ pc \in {"pulling", "cancelled"}
    /\ \E r \in Records :
          /\ MaySupply(r)
          /\ history' = Append(history, r)
          /\ pc' = OnRecord(r).pc
          /\ evt' = OnRecord(r).evt
          /\ yielded' = yielded \o Yield(r)
    /\ lastPoll' = "record"
    /\ UNCHANGED <<args, filter, queue, received, rx, cancelled>>
    /\ UNCHANGED <<cursor, document, result, peer>>

\* cursor.try_next() returns Ok(Some(o)).
ReaderRecord ==
    /\ pc = "pulling"
    /\ \E r \in Records :
          /\ MaySupply(r)
          /\ history' = Append(history, r)
          /\ pc' = OnRecord(r).pc
          /\ evt' = OnRecord(r).evt
          /\ yielded' = yielded \o Yield(r)
    /\ lastPoll' = "record"
    /\ UNCHANGED <<args, filter, queue, received, rx, cancelled>>
    /\ UNCHANGED <<cursor, document, result, peer>>

\* The stream returning None on an empty poll, which ends the worker's
\* while let loop and the task with it.
OnEmpty_EndOfSequence == "ended"

\* What the stream does on Ok(None) from cursor.try_next(): nothing is
\* yielded and the loop polls again.
OnEmpty == "pulling"

\* cursor.try_next() returns Ok(None).
ReaderEmpty ==
    /\ pc = "pulling"
    /\ lastPoll' = "empty"
    /\ pc' = OnEmpty
    /\ UNCHANGED <<args, filter, history, evt, queue, received, rx, cancelled>>
    /\ UNCHANGED <<cursor, document, result, peer, yielded>>

\* What the stream does on Err(e) from cursor.try_next(): the error is
\* printed and the loop polls again.
OnFault == "pulling"

\* cursor.try_next() returns Err(e).
ReaderFault ==
    /\ pc = "pulling"
    /\ lastPoll' = "fault"
    /\ pc' = OnFault
    /\ UNCHANGED <<args, filter, history, evt, queue, received, rx, cancelled>>
    /\ UNCHANGED <<cursor, document, result, peer, yielded>>

\* Mutant of HasRoom: the bound is checked one slot too late.
HasRoom_OffByOne(q) == Len(q) <= Capacity

\* The channel has a free slot.
HasRoom(q) == Len(q) < Capacity

\* Mutant of Push: the event is queued ahead of those already buffered.
Push_Front(q, e) == <<e>> \o q

\* The channel queues an event behind those already buffered.
Push(q, e) == Append(q, e)

\* The result of the push unwrapped: a send error ends the task.
OnSendError_Unwrap == "panicked"

\* What the worker does on Err from tx.send(evt).await: the error is logged
\* and the loop takes the next Operation of the stream.
OnSendError == "pulling"

\* tx.send(evt).await completes: with an error (only logged) when the receiver
\* is gone, with the event queued when the queue has room; it stays suspended
\* on a full queue.
WorkerSend ==
    /\ pc = "sending"
    /\ IF rx = "dropped"
       THEN queue' = queue /\ pc' = OnSendError
       ELSE /\ HasRoom(queue)
            /\ queue' = Push(queue, evt[1])
            /\ pc' = "pulling"
    /\ evt' = << >>
    /\ UNCHANGED <<args, filter, history, lastPoll, received, rx, cancelled>>
    /\ UNCHANGED <<cursor, document, result, peer, yielded>>

\* The caller cancels the context.
Cancel ==
    /\ ~cancelled
    /\ cancelled' = TRUE
    /\ UNCHANGED <<args, filter, history, lastPoll, pc, evt, queue, received, rx>>
    /\ UNCHANGED <<cursor, document, result, peer, yielded>>

\* Mutant of Abandon: the push in flight is completed on cancellation.
Abandon_Flush(q, e) == q \o e

\* What is queued once the worker has taken the cancellation branch of
\* select!: the block is dropped and the push in flight with it.
Abandon(q, e) == q

\* Mutant of Interruptible: cancellation is only looked at between two events,
\* not while a push is suspended.
Interruptible_NotWhileSending(p) == p \in {"opening", "pulling"}

\* The worker can take the cancellation branch wherever it is suspended.
Interruptible(p) == p \in Running

\* select!: ctx.done() completes first and the task returns.
WorkerCancel ==
    /\ cancelled
    /\ Interruptible(pc)
    /\ pc' = "cancelled"
    /\ queue' = Abandon(queue, evt)
    /\ evt' = << >>
    /\ filter' = None
    /\ UNCHANGED <<args, history, lastPoll, received, rx, cancelled>>
    /\ UNCHANGED <<cursor, document, result, peer, yielded>>

\* rx.recv().await returns Some(event).
ConsumerRecv ==
    /\ rx = "open"
    /\ queue # << >>
    /\ received' = Append(received, Head(queue))
    /\ queue' = Tail(queue)
    /\ UNCHANGED <<args, filter, history, lastPoll, pc, evt, rx, cancelled>>
    /\ UNCHANGED <<cursor, document, result, peer, yielded>>

\* rx.recv().await returns None: the queue is empty and the sender is gone.
ConsumerEnd ==
    /\ rx = "open"
    /\ queue = << >>
    /\ pc \in {"cancelled", "panicked"}
    /\ rx' = "eos"
    /\ UNCHANGED <<args, filter, history, lastPoll, pc, evt, queue, received, cancelled>>
    /\ UNCHANGED <<cursor, document, result, peer, yielded>>

\* The consumer drops the receiver; what is buffered is dropped with it.
ConsumerDrop ==
    /\ rx \in {"open", "eos"}
    /\ rx' = "dropped"
    /\ queue' = << >>
    /\ UNCHANGED <<args, filter, history, lastPoll, pc, evt, received, cancelled>>
    /\ UNCHANGED <<cursor, document, result, peer, yielded>>

Next ==
    \/ Subscribe
    \/ OpenOk
    \/ OpenFail
    \/ ReaderRecord
    \/ ReaderEmpty
    \/ ReaderFault
    \/ WorkerSend
    \/ Cancel
    \/ WorkerCancel
    \/ ConsumerRecv
    \/ ConsumerEnd
    \/ ConsumerDrop

Spec == Init /\ [][Next]_vars

\* ctx.done() wakes the task, and select! polls it each time the task runs.
FairSpec == Spec /\ WF_vars(WorkerCancel)

(***************************************************************************)
(* The decoder alone: Operation::new applied to one raw record drawn from  *)
(* a bounded set of documents.                                             *)
(***************************************************************************)
\* Longest applyOps array of the documents.
MaxOps == 2

\* A key the document does not hold.
Absent == [t |-> "Absent", v |-> 0]

\* The document of a choice of values, one per key, Absent ones left out.
Build(c) == [k \in {k \in DOMAIN c : c[k].t # "Absent"} |-> c[k]]

\* Elements of an applyOps array: nested records that decode (an insert, a
\* delete, a nested applyOps command), one that does not, and a value that is
\* no document.
NestedInsert == Doc([ts |-> DateTime(1479561394), t |-> I32(2), h |-> I64(11),
                     op |-> Str("i"), ns |-> Str("foo.bar"),
                     o |-> Doc([_id |-> I32(1), foo |-> Str("bar")])])
NestedDelete == Doc([ts |-> DateTime(1479561395), h |-> I64(12), op |-> Str("d"),
                     ns |-> Str("foo.bar"), o |-> Doc([_id |-> I32(1)])])
NestedApplyOps == Doc([ts |-> DateTime(1479561396), h |-> I64(13), op |-> Str("c"),
                       ns |-> Str("foo.$cmd"),
                       o |-> Doc([applyOps |-> Array(<<NestedDelete>>)])])
NestedUnknown == Doc([op |-> Str("x")])
Elements == {NestedInsert, NestedDelete, NestedApplyOps, NestedUnknown, I32(1)}

Arrays == UNION {[1..n -> Elements] : n \in 0..MaxOps}

OpValues == {Absent, I32(1), Str("n"), Str("i"), Str("u"), Str("d"), Str("c"), Str("x"),
             Str("I")}
HValues == {Absent, I64(7), I32(7)}
TsValues == {Absent, DateTime(1479419534), Timestamp(1479419534)}
NsValues == {Absent, Str("foo.bar"), I32(0)}
PlainValues == {Absent, Str("o"), Doc([foo |-> Str("bar")]),
                Doc([msg |-> Str("initiating set")]), Doc([msg |-> I32(1)]),
                Doc([applyOps |-> Str("none")])}
O2Values == {Absent, Str("o2"), Doc([_id |-> I32(1)])}
VValues == {Absent, I32(2)}

\* The documents handed to the decoder: every combination of the values above,
\* and the records of every operation code whose o holds an applyOps array.
Documents ==
    {Build(c) : c \in [op : OpValues, h : HValues, ts : TsValues, ns : NsValues,
                       o : PlainValues, o2 : O2Values, v : VValues]}
    \cup
    {Build(c) : c \in [op : {Str("c"), Str("i")}, h : HValues, ts : TsValues,
                       ns : NsValues,
                       o : {Doc([applyOps |-> Array(a)]) : a \in Arrays}]}

InitDecoder ==
    /\ document \in Documents
    /\ result = None
    /\ yielded = << >>
    /\ cursor = None
    /\ peer = NoPeer
    /\ args = None
    /\ filter = None
    /\ history = << >>
    /\ lastPoll = "none"
    /\ pc = "idle"
    /\ evt = << >>
    /\ queue = << >>
    /\ received = << >>
    /\ rx = "none"
    /\ cancelled = FALSE

\* Operation::new(&document)
Decode ==
    /\ result = None
    /\ result' = Some(Operation_new(document))
    /\ UNCHANGED <<args, filter, history, lastPoll, pc, evt, queue, received, rx,
                   cancelled, cursor, document, peer, yielded>>

DecoderNext == Decode

DecoderSpec == InitDecoder /\ [][DecoderNext]_vars

(***************************************************************************)
(* Vocabulary of the properties, stated on the raw records.                *)
(***************************************************************************)
IsPrefix(a, b) == Len(a) <= Len(b) /\ SubSeq(b, 1, Len(a)) = a

Decodes(r) == Operation_new(r).ok

\* A decodable record whose operation code is insert, update or delete.
IsCrudRecord(r) == Decodes(r) /\ r.op.v \in {"i", "u", "d"}

\* A decodable record whose operation code is noop or command.
IsOtherRecord(r) == Decodes(r) /\ r.op.v \in {"n", "c"}

\* The document of an insert/update/delete record re-decodes into T.
Matches(r) == from_document(r.o.v).ok

EventKind(code) ==
    CASE code = "i" -> "Added" [] code = "u" -> "Updated" [] code = "d" -> "Deleted"

\* The event an insert/update/delete record is to produce.
EventFor(r) ==
    IF Matches(r)
    THEN [kind |-> EventKind(r.op.v), object |-> from_document(r.o.v).val]
    ELSE [kind |-> "Error", msg |-> from_document(r.o.v).err]

\* The events of a run of records: one per insert/update/delete record, in
\* reader order.
RECURSIVE Expected(_)
Expected(h) ==
    IF h = << >> THEN << >>
    ELSE (IF IsCrudRecord(Head(h)) THEN <<EventFor(Head(h))>> ELSE << >>)
            \o Expected(Tail(h))

\* The events that left the worker and are not lost: received, buffered, or
\* held by the push in flight.
Delivered == received \o queue \o evt

AllCrud == \A i \in 1..Len(history) : IsCrudRecord(history[i])

(***************************************************************************)
(* Properties.                                                             *)
(***************************************************************************)

\* C1: at any moment, whatever the interleaving of reader, worker, consumer
\* and cancellation, the events the consumer has received are a prefix of the
\* events of the reader's insert/update/delete records in reader order:
\* nothing is reordered, duplicated, fabricated or skipped.
C1_ReceivedIsPrefix == IsPrefix(received, Expected(history))

\* C1 witness: the consumer has received two different events while more are
\* buffered.
C1_Witness ==
    /\ Len(received) >= 2
    /\ received[1] # received[2]
    /\ queue # << >>

\* C2: with N decodable insert/update/delete records, no cancellation and a
\* consumer holding the receiver, no event is dropped, the queue never holds
\* more than Capacity events, the worker is suspended on its push (and pulls
\* nothing) while Capacity events are unread, and a drained queue means the
\* consumer has observed exactly N events.
C2_Backpressure ==
    (AllCrud /\ ~cancelled /\ rx = "open" /\ pc \in {"pulling", "sending"}) =>
        /\ Delivered = Expected(history)
        /\ Len(Expected(history)) = Len(history)
        /\ Len(queue) <= Capacity
        /\ Len(history) <= Len(received) + Capacity + 1
        /\ (pc = "sending" /\ Len(queue) = Capacity) =>
               ~ENABLED (ReaderRecord \/ WorkerSend \/ WorkerCancel)
        /\ (queue = << >> /\ evt = << >>) => Len(received) = Len(history)

\* C2 witness: without cancellation the worker is suspended on a push with
\* Capacity events unread.
C2_Witness ==
    /\ AllCrud /\ ~cancelled /\ rx = "open"
    /\ pc = "sending"
    /\ Len(queue) = Capacity
    /\ Len(history) = Len(received) + Capacity + 1

\* C3: once the cancellation has propagated to the worker, the consumer
\* receives only events that were already queued, in their order: nothing
\* enters the queue any more, and the event of a push in flight is dropped.
C3_NoDeliveryAfterCancel ==
    [][pc' = "cancelled" =>
          /\ evt' = << >>
          /\ \E k \in 0..Len(queue) :
                /\ received' = received \o SubSeq(queue, 1, k)
                /\ queue' \in {SubSeq(queue, k + 1, Len(queue)), << >>}]_vars

\* C3 witness: the worker was cancelled while suspended on a full queue; the
\* consumer still holds the receiver and the event in flight is gone.
C3_Witness ==
    /\ pc = "cancelled"
    /\ rx = "open"
    /\ Len(queue) = Capacity
    /\ Len(Expected(history)) > Len(received) + Len(queue)

\* The step in which the worker takes record r from the reader.
Takes(r) == history' = Append(history, r)

\* C4: a raw record that fails to decode never aborts the pipeline: the
\* stream skips it and the worker stays Running, so later records are still
\* yielded.
C4_DecodeFailureSkipped ==
    [][\A r \in Records : (Takes(r) /\ ~Decodes(r)) =>
            /\ pc' = "pulling"
            /\ evt' = << >>]_vars

\* C5: a document that does not match T yields exactly one Error event for
\* its record and the worker keeps running: the events of the later records
\* follow it in order.
C5_MismatchIsOneErrorEvent ==
    \A i \in 1..Len(history) :
        (IsCrudRecord(history[i]) /\ ~Matches(history[i])) =>
            /\ (pc = "panicked" => i < Len(history))
            /\ (pc \in {"pulling", "sending"} /\ rx = "open") =>
                  LET k == Len(Expected(SubSeq(history, 1, i)))
                  IN  /\ Len(Delivered) >= k
                      /\ Delivered[k] = Error(from_document(history[i].o.v).err)
                      /\ SubSeq(Delivered, k + 1, Len(Delivered))
                            = Expected(SubSeq(history, i + 1, Len(history)))

\* C5 witness: the consumer received the Error event of a mismatching record
\* and then the Added event of the record after it.
C5_Witness ==
    /\ Len(history) >= 2
    /\ IsCrudRecord(history[1]) /\ ~Matches(history[1])
    /\ history[2] = InsertRec
    /\ Len(received) >= 2
    /\ received[1].kind = "Error"
    /\ received[2].kind = "Added"

\* C6: every decoded insert, update or delete produces exactly one event,
\* pushed once; when its document re-decodes into T the event is Added for an
\* insert, Updated for an update and Deleted for a delete, carrying the
\* re-decoded payload.
C6_OneEventPerOperation ==
    [][/\ \A r \in Records : (Takes(r) /\ IsCrudRecord(r)) =>
             /\ pc' = "sending"
             /\ Len(evt') = 1
             /\ queue' = queue
             /\ Matches(r) =>
                   /\ r.op.v = "i" => evt'[1] = Added(from_document(r.o.v).val)
                   /\ r.op.v = "u" => evt'[1] = Updated(from_document(r.o.v).val)
                   /\ r.op.v = "d" => evt'[1] = Deleted(from_document(r.o.v).val)
       /\ (pc = "sending" /\ pc' = "pulling" /\ rx = "open") =>
             queue' = Append(queue, evt[1])]_vars

\* C6 witness: the consumer has received an Added, an Updated and a Deleted
\* event.
C6_Witness ==
    {received[i].kind : i \in 1..Len(received)} = {"Added", "Updated", "Deleted"}

C8_OnlyFaultTerminates ==
    /\ lastPoll = "fault" => pc \notin Running
    /\ pc = "panicked" => (history = << >> \/ lastPoll = "fault")

\* C9: once cancellation is signalled the worker eventually exits, whatever
\* it is suspended on and even if the consumer never reads again, and its
\* sending side is dropped; a consumer that keeps receiving then eventually
\* observes end-of-stream, after the events still in the queue.
C9_CancelEventuallyEnds ==
    /\ cancelled ~> (pc \notin Running)
    /\ WF_vars(ConsumerRecv \/ ConsumerEnd) =>
          ((cancelled /\ rx = "open") ~> (rx # "open"))
    /\ [](rx = "eos" => (queue = << >> /\ pc \notin Running))

\* C9 witness: the worker was cancelled while suspended on a full queue, and
\* the consumer has received what was queued and then the end of the stream.
C9_Witness ==
    /\ pc = "cancelled"
    /\ rx = "eos"
    /\ Len(received) >= Capacity
    /\ Len(Expected(history)) > Len(received)

\* C10: the filter subscribe builds for database D and collection C has ns
\* equal to "D.C": without a caller filter it is exactly {ns: "D.C"}; with one,
\* every caller key other than ns keeps the caller's value and a caller's ns
\* is overwritten.
C10_FilterNamespace ==
    [][pc = "idle" /\ pc' # "idle" =>
          LET a == args[1]
              f == filter'[1]
          IN  /\ filter' # None
              /\ f["ns"] = [t |-> "String", v |-> a.ns \o "." \o a.coll]
              /\ a.filter = None => DOMAIN f = {"ns"}
              /\ a.filter # None =>
                    /\ DOMAIN f = DOMAIN a.filter[1] \cup {"ns"}
                    /\ \A k \in DOMAIN a.filter[1] \ {"ns"} : f[k] = a.filter[1][k]]_vars

\* C10 witness: subscribe was called for db.coll with a caller filter holding
\* another ns and an op criterion; the filter built has ns "db.coll" and the
\* caller's op.
C10_Witness ==
    /\ pc = "opening"
    /\ filter # None
    /\ DOMAIN filter[1] = {"ns", "op"}
    /\ filter[1]["ns"] = Str("db.coll")
    /\ filter[1]["op"].t = "Document"

(***************************************************************************)
(* Properties of the decoder, stated on the decoded document.              *)
(***************************************************************************)
\* The document holds the key with a value of the type.
Has(d, key, type) == key \in DOMAIN d /\ d[key].t = type

\* The document's op is the string.
HasOp(d, op) == Has(d, "op", "String") /\ d["op"].v = op

\* Operation::new has returned.
Decoded == result # None

\* What Operation::new returned.
Returned == result[1]

\* C11: a record with op "i" that carries ts, ns and a document o, and no id
\* field h, decodes to Insert with timestamp = ts, namespace = ns and
\* document = o.
C11_InsertWithoutId ==
    (/\ Decoded
     /\ HasOp(document, "i")
     /\ "h" \notin DOMAIN document
     /\ Has(document, "ts", "DateTime")
     /\ Has(document, "ns", "String")
     /\ Has(document, "o", "Document"))
    => /\ Returned.ok
       /\ Returned.val.variant = "Insert"
       /\ Returned.val.timestamp = document["ts"].v
       /\ Returned.val.namespace = document["ns"].v
       /\ Returned.val.document = document["o"].v

\* The record's op is n, i, u or d and every field its decoder reads is
\* present with the type the decoder asks for.
WellTyped(d) ==
    /\ Has(d, "op", "String")
    /\ d["op"].v \in {"n", "i", "u", "d"}
    /\ Has(d, "h", "Int64")
    /\ Has(d, "ts", "DateTime")
    /\ Has(d, "o", "Document")
    /\ d["op"].v \in {"i", "u", "d"} => Has(d, "ns", "String")
    /\ d["op"].v = "u" => Has(d, "o2", "Document")
    /\ d["op"].v = "n" => Has(d["o"].v, "msg", "String")

\* The variant a well-typed record stands for, its fields copied.
VariantOf(d) ==
    CASE d["op"].v = "n" ->
           [variant |-> "Noop", id |-> d["h"].v, timestamp |-> d["ts"].v,
            message |-> d["o"].v["msg"].v]
      [] d["op"].v = "i" ->
           [variant |-> "Insert", id |-> d["h"].v, timestamp |-> d["ts"].v,
            namespace |-> d["ns"].v, document |-> d["o"].v]
      [] d["op"].v = "u" ->
           [variant |-> "Update", id |-> d["h"].v, timestamp |-> d["ts"].v,
            namespace |-> d["ns"].v, query |-> d["o2"].v, update |-> d["o"].v]
      [] d["op"].v = "d" ->
           [variant |-> "Delete", id |-> d["h"].v, timestamp |-> d["ts"].v,
            namespace |-> d["ns"].v, query |-> d["o"].v]

\* C12: a record whose op is n, i, u or d and whose fields h, ts, o (ns for
\* i/u/d, o2 for u, o.msg for n) have the right types decodes to the matching
\* variant, with id = h, timestamp = ts, namespace = ns and the payloads
\* copied unchanged, whatever the record holds besides (v, or an o2 for a
\* record that is no update).
C12_WellTypedDecodes ==
    (Decoded /\ WellTyped(document)) => Returned = Ok(VariantOf(document))

\* An update carrying v and differing o and o2 has been decoded.
C12_Witness ==
    /\ Decoded
    /\ WellTyped(document)
    /\ document["op"].v = "u"
    /\ "v" \in DOMAIN document
    /\ document["o"] # document["o2"]
    /\ Returned.ok

\* The operation codes Operation::new dispatches on.
Codes == {"n", "i", "u", "d", "c"}

\* C13: a record whose op is a string outside n, i, u, d, c fails with
\* UnknownOperation carrying that string, whichever other fields the record
\* has.
C13_UnknownOperation ==
    (/\ Decoded
     /\ Has(document, "op", "String")
     /\ document["op"].v \notin Codes)
    => Returned = UnknownOperation(document["op"].v)

\* A record of an unknown op with no other field at all has been decoded.
C13_Witness ==
    /\ Decoded
    /\ DOMAIN document = {"op"}
    /\ Has(document, "op", "String")
    /\ document["op"].v = "I"
    /\ ~Returned.ok

\* Every field the decoder of the record's operation code requires is present
\* with its type.
Complete(d) ==
    /\ Has(d, "h", "Int64")
    /\ Has(d, "ts", "DateTime")
    /\ Has(d, "o", "Document")
    /\ d["op"].v \in {"i", "u", "d", "c"} => Has(d, "ns", "String")
    /\ d["op"].v = "u" => Has(d, "o2", "Document")
    /\ d["op"].v = "n" => Has(d["o"].v, "msg", "String")

\* C14: no partially populated Operation. A record whose op is absent or no
\* string, or whose op is n, i, u, d or c while a field required for it is
\* absent or of another type, fails with MissingField; and an Operation is
\* returned only for a known op with every required field in place.
C14_NoPartialOperation ==
    Decoded =>
       /\ (\/ ~Has(document, "op", "String")
           \/ (document["op"].v \in Codes /\ ~Complete(document)))
          => (~Returned.ok /\ Returned.err.kind = "MissingField")
       /\ Returned.ok =>
             /\ Has(document, "op", "String")
             /\ document["op"].v \in Codes
             /\ Complete(document)

\* A delete whose only flaw is its ns has been decoded, to no Operation.
C14_Witness ==
    /\ Decoded
    /\ HasOp(document, "d")
    /\ Has(document, "h", "Int64")
    /\ Has(document, "ts", "DateTime")
    /\ Has(document, "o", "Document")
    /\ ~Has(document, "ns", "String")
    /\ ~Returned.ok

\* The document is a record that decodes: a known op, its required fields in
\* place and, for a command with an applyOps array, elements that are
\* documents that decode.
RECURSIVE Decodable(_)
Decodable(d) ==
    /\ Has(d, "op", "String")
    /\ d["op"].v \in Codes
    /\ Complete(d)
    /\ (d["op"].v = "c" /\ Has(d["o"].v, "applyOps", "Array")) =>
          \A i \in 1..Len(d["o"].v["applyOps"].v) :
             /\ d["o"].v["applyOps"].v[i].t = "Document"
             /\ Decodable(d["o"].v["applyOps"].v[i].v)

\* The Operation a decodable record stands for: the operations of a batch
\* are those of its elements, one for one and in the array's order.
RECURSIVE Meaning(_)
Meaning(d) ==
    IF d["op"].v # "c" THEN VariantOf(d)
    ELSE IF Has(d["o"].v, "applyOps", "Array")
    THEN [variant |-> "ApplyOps", id |-> d["h"].v, timestamp |-> d["ts"].v,
          namespace |-> d["ns"].v,
          operations |-> [i \in 1..Len(d["o"].v["applyOps"].v) |->
                             Meaning(d["o"].v["applyOps"].v[i].v)]]
    ELSE [variant |-> "Command", id |-> d["h"].v, timestamp |-> d["ts"].v,
          namespace |-> d["ns"].v, command |-> d["o"].v]

\* C15: a command record whose o holds an applyOps array of nested records
\* that each decode yields ApplyOps whose operations are, one for one and in
\* the array's order, the decoded nested records, nested batches included.
C15_ApplyOpsInOrder ==
    (/\ Decoded
     /\ HasOp(document, "c")
     /\ Decodable(document)
     /\ Has(document["o"].v, "applyOps", "Array"))
    => /\ Returned.ok
       /\ Returned.val.variant = "ApplyOps"
       /\ Len(Returned.val.operations) = Len(document["o"].v["applyOps"].v)
       /\ Returned = Ok(Meaning(document))

\* A batch of two different records, one of them a batch itself, has been
\* decoded.
C15_Witness ==
    /\ Decoded
    /\ HasOp(document, "c")
    /\ Decodable(document)
    /\ Has(document["o"].v, "applyOps", "Array")
    /\ document["o"].v["applyOps"].v = <<NestedApplyOps, NestedInsert>>
    /\ Returned.ok
    /\ Returned.val.operations[1].variant = "ApplyOps"
    /\ Returned.val.operations[2].variant = "Insert"

\* The applyOps array of a command record.
Ops(d) == d["o"].v["applyOps"].v

\* The element does not decode: it is no document, or a document that does
\* not decode.
Fails(e) == e.t # "Document" \/ ~Decodable(e.v)

\* The first element of the array that does not decode.
FirstFailure(a) == CHOOSE k \in 1..Len(a) : Fails(a[k]) /\ \A j \in 1..(k - 1) : ~Fails(a[j])

\* A command record, well formed but for its applyOps array, which holds an
\* element that is no document.
HoldsNonDocument(d) ==
    /\ HasOp(d, "c")
    /\ Complete(d)
    /\ Has(d["o"].v, "applyOps", "Array")
    /\ \E i \in 1..Len(Ops(d)) : Ops(d)[i].t # "Document"

Exited == pc \in {"cancelled", "panicked"}

\* C19: the worker's exits are terminal. Once the worker has left Running it
\* stays where it is, pulls nothing more from the reader (no record, no poll)
\* and pushes nothing more: the queue only loses what the consumer takes or
\* drops.
C19_ExitIsTerminal ==
    [][Exited =>
          /\ pc' = pc
          /\ history' = history
          /\ lastPoll' = lastPoll
          /\ evt' = evt
          /\ \/ queue' = queue
             \/ queue # << >> /\ queue' = Tail(queue)
             \/ queue' = << >>]_vars

\* The worker was cancelled after it pulled records, with events still queued,
\* and the consumer has since taken one of them.
C19_Witness ==
    /\ pc = "cancelled"
    /\ Len(history) >= 2
    /\ queue # << >>
    /\ received # << >>
    /\ rx = "open"

\* C20: the reader subscribe opens is scoped to the filter subscribe built:
\* the cursor Oplog::new returns was opened with the filter handed to it, the
\* caller's criteria with ns set to "D.C".
C20_ReaderScopedToFilter ==
    [][(pc = "opening" /\ pc' = "pulling") => cursor' = filter]_vars

(***************************************************************************)
(* Two subscriptions side by side: the one above and a second call of      *)
(* subscribe, whose channel, task and cursor are the fields of peer.       *)
(***************************************************************************)
\* Longest run of records the second subscription's reader supplies.
MaxPeer == 2

\* The state of the first subscription.
first == <<args, filter, history, lastPoll, pc, evt, queue, received, rx, cancelled,
           cursor, yielded>>

\* A caller is about to call subscribe a second time.
IdlePeer == [pc |-> "idle", history |-> << >>, evt |-> << >>, queue |-> << >>,
             received |-> << >>, rx |-> "none", cancelled |-> FALSE]

InitPair ==
    /\ cursor = None
    /\ document = << >>
    /\ result = None
    /\ yielded = << >>
    /\ peer = IdlePeer
    /\ args = Some([ns |-> "db", coll |-> "coll", filter |-> None])
    /\ filter = None
    /\ history = << >>
    /\ lastPoll = "none"
    /\ pc = "idle"
    /\ evt = << >>
    /\ queue = << >>
    /\ received = << >>
    /\ rx = "none"
    /\ cancelled = FALSE

\* The first subscription's reader supplies one more insert.
PairReaderRecord ==
    /\ ReaderRecord
    /\ history' = Append(history, InsertRec)

\* subscribe, called a second time: a new channel and a new task.
PeerSubscribe ==
    /\ peer.pc = "idle"
    /\ peer' = [peer EXCEPT !.pc = "opening", !.rx = "open"]
    /\ UNCHANGED <<first, document, result>>

\* Oplog::new of the second task succeeds.
PeerOpenOk ==
    /\ peer.pc = "opening"
    /\ peer' = [peer EXCEPT !.pc = "pulling"]
    /\ UNCHANGED <<first, document, result>>

\* Oplog::new of the second task fails: unwrap() panics.
PeerOpenFail ==
    /\ peer.pc = "opening"
    /\ peer' = [peer EXCEPT !.pc = "panicked"]
    /\ UNCHANGED <<first, document, result>>

\* The second task's cursor.try_next() returns Ok(Some(o)).
PeerReaderRecord ==
    /\ peer.pc = "pulling"
    /\ Len(peer.history) < MaxPeer
    /\ \E r \in Burst :
          peer' = [peer EXCEPT !.history = Append(@, r),
                               !.pc = OnRecord(r).pc,
                               !.evt = OnRecord(r).evt]
    /\ UNCHANGED <<first, document, result>>

\* The two tasks sending on one channel: the second task's event is queued,
\* room permitting, on the first subscription's channel.
PeerWorkerSend_SharedChannel ==
    /\ peer.pc = "sending"
    /\ IF rx = "dropped"
       THEN queue' = queue
       ELSE /\ HasRoom(queue)
            /\ queue' = Push(queue, peer.evt[1])
    /\ peer' = [peer EXCEPT !.evt = << >>, !.pc = "pulling"]
    /\ UNCHANGED <<args, filter, history, lastPoll, pc, evt, received, rx, cancelled,
                   cursor, document, result, yielded>>

\* The second task's tx.send(evt).await completes, on its own channel.
PeerWorkerSend ==
    /\ peer.pc = "sending"
    /\ IF peer.rx = "dropped"
       THEN peer' = [peer EXCEPT !.evt = << >>, !.pc = "pulling"]
       ELSE /\ HasRoom(peer.queue)
            /\ peer' = [peer EXCEPT !.queue = Push(@, peer.evt[1]),
                                    !.evt = << >>, !.pc = "pulling"]
    /\ UNCHANGED <<first, document, result>>

\* The second caller cancels its context.
PeerCancel ==
    /\ ~peer.cancelled
    /\ peer' = [peer EXCEPT !.cancelled = TRUE]
    /\ UNCHANGED <<first, document, result>>

\* select! of the second task: ctx.done() completes first.
PeerWorkerCancel ==
    /\ peer.cancelled
    /\ Interruptible(peer.pc)
    /\ peer' = [peer EXCEPT !.pc = "cancelled",
                            !.queue = Abandon(@, peer.evt),
                            !.evt = << >>]
    /\ UNCHANGED <<first, document, result>>

\* The second consumer's rx.recv().await returns Some(event).
PeerConsumerRecv ==
    /\ peer.rx = "open"
    /\ peer.queue # << >>
    /\ peer' = [peer EXCEPT !.received = Append(@, Head(peer.queue)),
                            !.queue = Tail(@)]
    /\ UNCHANGED <<first, document, result>>

\* The second consumer's rx.recv().await returns None.
PeerConsumerEnd ==
    /\ peer.rx = "open"
    /\ peer.queue = << >>
    /\ peer.pc \in {"cancelled", "panicked"}
    /\ peer' = [peer EXCEPT !.rx = "eos"]
    /\ UNCHANGED <<first, document, result>>

\* The second consumer drops its receiver.
PeerConsumerDrop ==
    /\ peer.rx \in {"open", "eos"}
    /\ peer' = [peer EXCEPT !.rx = "dropped", !.queue = << >>]
    /\ UNCHANGED <<first, document, result>>

PairNext ==
    \/ Subscribe
    \/ OpenOk
    \/ OpenFail
    \/ PairReaderRecord
    \/ WorkerSend
    \/ Cancel
    \/ WorkerCancel
    \/ ConsumerRecv
    \/ ConsumerEnd
    \/ ConsumerDrop
    \/ PeerSubscribe
    \/ PeerOpenOk
    \/ PeerOpenFail
    \/ PeerReaderRecord
    \/ PeerWorkerSend
    \/ PeerCancel
    \/ PeerWorkerCancel
    \/ PeerConsumerRecv
    \/ PeerConsumerEnd
    \/ PeerConsumerDrop

PairSpec == InitPair /\ [][PairNext]_vars

\* The second subscription's worker is held up by nothing but its own
\* channel: its pull, its push and its cancellation are possible whenever its
\* own state allows them.
PeerCanProgress ==
    /\ (peer.pc = "pulling" /\ Len(peer.history) < MaxPeer) => ENABLED PeerReaderRecord
    /\ (peer.pc = "sending" /\ (HasRoom(peer.queue) \/ peer.rx = "dropped"))
          => ENABLED PeerWorkerSend
    /\ (peer.cancelled /\ peer.pc \in Running) => ENABLED PeerWorkerCancel
    /\ (peer.rx = "open" /\ peer.queue # << >>) => ENABLED PeerConsumerRecv

\* The same of the first subscription.
FirstCanProgress ==
    /\ (pc = "pulling" /\ Len(history) < MaxMixed) => ENABLED PairReaderRecord
    /\ (pc = "sending" /\ (HasRoom(queue) \/ rx = "dropped")) => ENABLED WorkerSend
    /\ (cancelled /\ pc \in Running) => ENABLED WorkerCancel
    /\ (rx = "open" /\ queue # << >>) => ENABLED ConsumerRecv

\* What a subscription has delivered and still holds is what its own reader's
\* records stand for, in order: nothing of the other subscription's.
OwnEventsOnly ==
    /\ IsPrefix(received \o queue, Expected(history))
    /\ IsPrefix(peer.received \o peer.queue, Expected(peer.history))

\* A step of one subscription leaves the other as it was.
OneAtATime == (peer' = peer) \/ (first' = first)

\* C18: two subscriptions running side by side do not interfere. Each step
\* changes one subscription only; each consumer is delivered the events of
\* its own reader's records only; and each worker can pull, push and be
\* cancelled whenever its own channel and context allow, whether the other is
\* running, cancelled, panicked or stalled on a full queue.
C18_NoInterference ==
    /\ [](OwnEventsOnly /\ PeerCanProgress /\ FirstCanProgress)
    /\ [][OneAtATime]_vars

\* The first subscription has been cancelled with its queue left full by a
\* consumer that takes nothing, while the second has delivered both its
\* events and is still running.
C18_Witness ==
    /\ pc = "cancelled"
    /\ Len(queue) = Capacity
    /\ received = << >>
    /\ rx = "open"
    /\ ~peer.cancelled
    /\ peer.pc = "pulling"
    /\ Len(peer.received) = MaxPeer

(***************************************************************************)
(* Commands that are no batch.                                             *)
(***************************************************************************)
\* A command record, its h, ts, ns and o in place, whose o holds no applyOps
\* array.
PlainCommand(d) ==
    /\ HasOp(d, "c")
    /\ Complete(d)
    /\ ~Has(d["o"].v, "applyOps", "Array")

\* C21: a command record whose o has no applyOps array (the key is absent,
\* or holds a value that is no array) decodes to Command with command = o
\* unchanged and id, timestamp, namespace taken from h, ts, ns.
C21_PlainCommand ==
    (Decoded /\ PlainCommand(document)) =>
       Returned = Ok([variant |-> "Command", id |-> document["h"].v,
                      timestamp |-> document["ts"].v,
                      namespace |-> document["ns"].v,
                      command |-> document["o"].v])

\* A command whose o holds an applyOps that is no array has been decoded.
C21_Witness ==
    /\ Decoded
    /\ PlainCommand(document)
    /\ "applyOps" \in DOMAIN document["o"].v
    /\ Returned.ok

(***************************************************************************)
(* Properties of the stream of Operations.                                 *)
(***************************************************************************)
\* The Operations of the records of h that decode, in the order of h.
RECURSIVE OperationsOf(_)
OperationsOf(h) ==
    IF h = << >> THEN << >>
    ELSE (IF Decodable(Head(h)) THEN <<Meaning(Head(h))>> ELSE << >>)
            \o OperationsOf(Tail(h))

\* A poll on which the reader has no record yields nothing, ends nothing and
\* leaves the stream polling.
EmptyPollPullsAgain ==
    (lastPoll # "empty" /\ lastPoll' = "empty") =>
       /\ yielded' = yielded
       /\ history' = history
       /\ pc' = "pulling"

\* C22 as stated: the stream never ends, an empty poll yields nothing and is
\* followed by another pull, and each record the reader supplies is yielded
\* exactly once, in reader order.
C22_EveryRecordYieldedOnce ==
    /\ [](/\ Len(yielded) = Len(history)
          /\ pc # "ended")
    /\ [][EmptyPollPullsAgain]_vars

\* C22, amended: the stream never ends, an empty poll yields nothing and is
\* followed by another pull, and each record the reader supplies that decodes
\* is yielded exactly once, in reader order; a record that does not decode is
\* not yielded.
C22_DecodableYieldedOnce ==
    /\ [](/\ yielded = OperationsOf(history)
          /\ pc # "ended")
    /\ [][EmptyPollPullsAgain]_vars

\* Two different records have been yielded and the last poll found nothing.
C22_Witness ==
    /\ Len(history) >= 2
    /\ Len(yielded) = Len(history)
    /\ yielded[1].variant # yielded[2].variant
    /\ lastPoll = "empty"
    /\ pc = "pulling"

(***************************************************************************)
(* The worker after the consumer has dropped the receiving end.            *)
(***************************************************************************)
\* The record the reader supplied last does not decode.
LastFailsToDecode(h) == h # << >> /\ ~Decodable(h[Len(h)])

\* Dropping the receiver changes nothing of the worker.
DropLeavesWorker ==
    (rx # "dropped" /\ rx' = "dropped") =>
       /\ pc' = pc
       /\ history' = history
       /\ evt' = evt
       /\ yielded' = yielded

\* With the receiver gone, a push ends with nothing queued and the worker
\* back at the stream, unless cancellation ends the task first.
FailedPushGoesOn ==
    (rx = "dropped" /\ pc = "sending" /\ pc' # pc) =>
       /\ queue' = << >>
       /\ evt' = << >>
       /\ pc' = "pulling" \/ (cancelled /\ pc' = "cancelled")

\* With the receiver gone, the worker leaves Running by cancellation, or by
\* the panic of the stream on a record that does not decode, and by nothing
\* else.
DroppedExitsByCancel ==
    (rx = "dropped" /\ pc \in Running /\ pc' \notin Running) =>
       \/ cancelled /\ pc' = "cancelled"
       \/ pc = "pulling" /\ pc' = "panicked" /\ LastFailsToDecode(history')
       \/ pc = "opening" /\ pc' = "panicked"

\* With the receiver gone, the worker is never held up: its push completes
\* and its next pull is possible.
DroppedWorkerRuns ==
    rx = "dropped" =>
       /\ pc = "sending" => ENABLED WorkerSend
       /\ (pc = "pulling" /\ Len(history) < MaxMixed) => ENABLED ReaderRecord
       /\ pc = "pulling" => ENABLED ReaderEmpty

\* C23: when the consumer drops the receiving end while the subscription is
\* not cancelled, the worker does not stop: the drop leaves it where it is,
\* each failed push only returns it to the stream, it goes on pulling and
\* decoding, and only cancellation (or a panic of the stream) ends it.
C23_DropDoesNotStopWorker ==
    /\ []DroppedWorkerRuns
    /\ [][DropLeavesWorker /\ FailedPushGoesOn /\ DroppedExitsByCancel]_vars

\* Nothing was ever received and the receiver is gone, yet the worker, not
\* cancelled, has pulled two records more than the channel holds and is back
\* at the stream: its last pushes failed and it went on.
C23_Witness ==
    /\ rx = "dropped"
    /\ ~cancelled
    /\ received = << >>
    /\ Len(history) = Capacity + 2
    /\ Len(yielded) = Capacity + 2
    /\ pc = "pulling"

(***************************************************************************)
(* A reader that cannot be opened.                                         *)
(***************************************************************************)
\* The worker died opening the reader: it panicked with no cursor.
DiedOpening == pc = "panicked" /\ cursor = None

\* subscribe has returned the receiving end by the time the worker opens the
\* reader, and whatever becomes of the worker.
ReceiverReturnedFirst ==
    pc # "idle" => (rx # "none" /\ args = None)

\* A worker that died opening the reader pulled nothing and pushed nothing:
\* its consumer holds no event, of any kind, and is told the stream is over.
NothingFromFailedOpen ==
    DiedOpening =>
       /\ history = << >>
       /\ yielded = << >>
       /\ evt = << >>
       /\ queue = << >>
       /\ received = << >>
       /\ rx = "open" => ENABLED ConsumerEnd
       /\ ~ENABLED ConsumerRecv

\* The step on which opening fails changes nothing the consumer can see.
FailedOpenIsSilent ==
    (pc = "opening" /\ pc' = "panicked") =>
       /\ queue' = queue
       /\ received' = received
       /\ rx' = rx

\* C24: subscribe returns the receiving end before the reader is opened; if
\* opening the reader then fails in the worker, the worker dies without
\* pushing anything and the consumer observes end-of-stream with zero events:
\* no Event::Error, and no error result of subscribe.
C24_FailedOpenEndsStream ==
    /\ [](ReceiverReturnedFirst /\ NothingFromFailedOpen)
    /\ [][FailedOpenIsSilent]_vars

\* Opening failed, without any cancellation, and the consumer has been told
\* the stream is over, having received nothing.
C24_Witness ==
    /\ DiedOpening
    /\ ~cancelled
    /\ rx = "eos"
    /\ received = << >>

====
